---- MODULE Spec2Model ----
(***************************************************************************)
(* Character-level Markov chain of simple-markov-go (src/main.go).         *)
(*                                                                         *)
(* A Go string is modelled as a sequence of bytes (naturals below 256), a  *)
(* rune as a natural.  The model follows main(): NewMarkovChain(order),    *)
(* AddText(text), Generate(length, seed, starter); Generate is then called *)
(* a second time with the same arguments so that two calls can be          *)
(* compared.  A run-time panic of the Go program (slice bounds out of      *)
(* range, index out of range, rand.Intn(0)) is the state pc = "Panic".     *)
(***************************************************************************)
EXTENDS Integers, Sequences, FiniteSets

\* ------------------------------------------------------------------ bounds
MaxTextLen == 3
MaxStarterLen == 2
MaxOrder == 2
MaxLength == 3
MaxSeed == 0

\* The byte values the corpus is drawn from: 'a', 'b' and 0xE9 (a byte >= 0x80).
Bytes == {97, 98, 233}

\* The byte values the starter is drawn from: 'a' and 'b'.
StarterBytes == {97, 98}

RECURSIVE StringsUpTo(_, _)
StringsUpTo(n, alphabet) ==
  IF n = 0 THEN {<<>>}
  ELSE LET shorter == StringsUpTo(n - 1, alphabet)
       IN  shorter \cup {Append(s, b) : s \in shorter, b \in alphabet}

Texts == StringsUpTo(MaxTextLen, Bytes)
Starters == StringsUpTo(MaxStarterLen, StarterBytes)
Orders == (-1)..MaxOrder
Lengths == (-1)..MaxLength
Seeds == (-1)..MaxSeed

\* ----------------------------------------------------------- Go primitives
\* s[lo:hi] is legal iff 0 <= lo <= hi <= len(s); otherwise the program panics.
SliceOK(s, lo, hi) == 0 <= lo /\ lo <= hi /\ hi <= Len(s)

Slice(s, lo, hi) == SubSeq(s, lo + 1, hi)

\* s[i] is legal iff 0 <= i < len(s).
IndexOK(s, i) == 0 <= i /\ i < Len(s)

\* rune(text[i]): the byte value taken as a code point.
ByteToRune(b) == b

\* string(r) and strings.Builder.WriteRune(r): the UTF-8 encoding of r, two
\* bytes for a code point in 0x80..0x7FF (every rune here comes from one byte).
Utf8(r) == IF r < 128 THEN <<r>> ELSE <<192 + (r \div 64), 128 + (r % 64)>>

\* m[k] of a Go map: the zero value (nil slice) for an absent key.
Lookup(m, k) == IF k \in DOMAIN m THEN m[k] ELSE <<>>

\* m[k] = append(m[k], c)
MapAppend(m, k, c) ==
  [x \in (DOMAIN m) \cup {k} |-> IF x = k THEN Append(Lookup(m, k), c) ELSE m[x]]

\* `for s := range m { states = append(states, s) }`: Go leaves the iteration
\* order of a map unspecified, so the slice is any ordering of the keys.
KeyOrders(m) ==
  LET n == Cardinality(DOMAIN m)
  IN  {f \in [1..n -> DOMAIN m] : \A i, j \in 1..n : f[i] = f[j] => i = j}

\* math/rand's global source, abstracted to a full-period linear congruential
\* generator: a deterministic function of the seed and of the number of draws.
RngMod == 8

RandSeed(s) == s % RngMod

RandNext(r) == (5 * r + 3) % RngMod

\* rand.Intn(n) for n > 0, drawn from generator state r (which then advances).
Intn(r, n) == RandNext(r) % n

\* ------------------------------------------------------------------- state
VARIABLES
  text,          \* the corpus handed to AddText
  order,         \* mc.order
  length,        \* Generate's length
  seed,          \* Generate's seed
  starter,       \* Generate's starter
  transitions,   \* mc.transitions
  pc,            \* position in main(): AddText, AddLoop, Generate, Seeded, Loop, Returned, Panic
  ai,            \* AddText's loop index i
  rng,           \* state of the global random source
  result,        \* the strings.Builder of Generate
  needed,        \* Generate's needed
  gi,            \* Generate's loop index i
  currentState,  \* Generate's currentState
  out,           \* the string returned by the current call of Generate
  call,          \* 1 or 2: which call of Generate is running
  out1,          \* the string returned by the first call
  stopped,       \* the current call left the loop through `break`
  reseeded,      \* the current call re-seeded its cursor at least once
  lastState,     \* currentState used for the last lookup that emitted a rune
  lastChar       \* the last rune emitted (-1: none yet)

vars == <<text, order, length, seed, starter, transitions, pc, ai, rng, result,
          needed, gi, currentState, out, call, out1, stopped, reseeded, lastState, lastChar>>

inputs == <<text, order, length, seed, starter>>

genLocals == <<result, needed, gi, currentState, out, stopped, reseeded, lastState,
               lastChar>>

\* NewMarkovChain(order): an empty map and the order; main() then calls AddText.
Init ==
  /\ text \in Texts
  /\ order \in Orders
  /\ length \in Lengths
  /\ seed \in Seeds
  /\ starter \in Starters
  /\ transitions = <<>>
  /\ pc = "AddText"
  /\ ai = 0
  /\ rng = 0
  /\ result = <<>>
  /\ needed = 0
  /\ gi = 0
  /\ currentState = <<>>
  /\ out = <<>>
  /\ call = 1
  /\ out1 = <<>>
  /\ stopped = FALSE
  /\ reseeded = FALSE
  /\ lastState = <<>>
  /\ lastChar = -1

\* ----------------------------------------------------------------- AddText
\* `if len(text) <= mc.order { return }`
AddTextSkips(t, k) == Len(t) <= k

\* Mutant of AddTextLimit: the loop stops one window early.
AddTextLimitShort(t, k) == Len(t) - k - 1

\* The loop runs while i < len(text) - mc.order.
AddTextLimit(t, k) == Len(t) - k

\* Mutant of AddTextRecord: the character recorded is text[i], not text[i+order].
AddTextRecordWindowStart(m, t, i, k) ==
  MapAppend(m, Slice(t, i, i + k), ByteToRune(t[i + 1]))

\* Mutant of AddTextRecord: the entry of the following window is created too,
\* before any successor of it has been seen.
AddTextRecordEagerKey(m, t, i, k) ==
  LET recorded == MapAppend(m, Slice(t, i, i + k), ByteToRune(t[i + k + 1]))
      following == Slice(t, i + 1, i + 1 + k)
  IN  [x \in (DOMAIN recorded) \cup {following} |-> Lookup(recorded, x)]

\* One iteration: state := text[i:i+order]; nextChar := rune(text[i+order]);
\* transitions[state] = append(transitions[state], nextChar)
AddTextRecord(m, t, i, k) ==
  MapAppend(m, Slice(t, i, i + k), ByteToRune(t[i + k + 1]))

\* AddText's entry: the length test, then the loop starts at i = 0.
AddTextEnter ==
  /\ pc = "AddText"
  /\ pc' = IF AddTextSkips(text, order) THEN "Generate" ELSE "AddLoop"
  /\ ai' = 0
  /\ UNCHANGED <<inputs, transitions, rng, genLocals, call, out1>>

\* One iteration of AddText's loop, at a window the slice and index accept.
AddTextStep ==
  /\ pc = "AddLoop"
  /\ ai < AddTextLimit(text, order)
  /\ SliceOK(text, ai, ai + order)
  /\ IndexOK(text, ai + order)
  /\ transitions' = AddTextRecord(transitions, text, ai, order)
  /\ ai' = ai + 1
  /\ UNCHANGED <<inputs, pc, rng, genLocals, call, out1>>

\* One iteration of AddText's loop whose slice text[i:i+order] or index
\* text[i+order] is out of range: the Go run time panics.
AddTextPanic ==
  /\ pc = "AddLoop"
  /\ ai < AddTextLimit(text, order)
  /\ ~(SliceOK(text, ai, ai + order) /\ IndexOK(text, ai + order))
  /\ pc' = "Panic"
  /\ UNCHANGED <<inputs, transitions, ai, rng, genLocals, call, out1>>

\* The loop condition fails: AddText returns and main() calls Generate.
AddTextReturn ==
  /\ pc = "AddLoop"
  /\ ~(ai < AddTextLimit(text, order))
  /\ pc' = "Generate"
  /\ UNCHANGED <<inputs, transitions, ai, rng, genLocals, call, out1>>

\* ---------------------------------------------------------------- Generate
\* Mutant of TruncateStarter: the cut is one character short.
TruncateStarterShort(s, n) == IF Len(s) > n THEN Slice(s, 0, n - 1) ELSE s

\* The empty-table return: starter[:length] if len(starter) > length, else starter.
TruncateStarter(s, n) == IF Len(s) > n THEN Slice(s, 0, n) ELSE s

\* Mutant of StarterCut: the starter is returned whole.
StarterCutWhole(s, n) == s

\* The long-starter return: starter[:length].
StarterCut(s, n) == Slice(s, 0, n)

\* The cursor advance at the end of an iteration.
NextState(cur, c, k) ==
  IF k > 1
    THEN IF Len(cur) > 0 THEN Slice(cur, 1, Len(cur)) \o Utf8(c) ELSE Utf8(c)
    ELSE Utf8(c)

\* `if length <= 0 { return "" }`
GenerateNothing ==
  /\ pc = "Generate"
  /\ length <= 0
  /\ out' = <<>>
  /\ pc' = "Returned"
  /\ UNCHANGED <<inputs, transitions, ai, rng, result, needed, gi, currentState,
                 call, out1, stopped, reseeded, lastState, lastChar>>

\* rand.Seed(seed) for a non-negative seed.
GenerateSeed ==
  /\ pc = "Generate"
  /\ length > 0
  /\ seed >= 0
  /\ rng' = RandSeed(seed)
  /\ pc' = "Seeded"
  /\ UNCHANGED <<inputs, transitions, ai, genLocals, call, out1>>

\* rand.Seed(time.Now().UnixNano()) for a negative seed: any generator state.
GenerateSeedFromClock ==
  /\ pc = "Generate"
  /\ length > 0
  /\ seed < 0
  /\ \E r \in 0..(RngMod - 1) : rng' = r
  /\ pc' = "Seeded"
  /\ UNCHANGED <<inputs, transitions, ai, genLocals, call, out1>>

\* `if len(mc.transitions) == 0`: return the starter, truncated to length.
GenerateEmptyTable ==
  /\ pc = "Seeded"
  /\ DOMAIN transitions = {}
  /\ out' = TruncateStarter(starter, length)
  /\ pc' = "Returned"
  /\ UNCHANGED <<inputs, transitions, ai, rng, result, needed, gi, currentState,
                 call, out1, stopped, reseeded, lastState, lastChar>>

\* `if len(starter) >= length { return starter[:length] }`
GenerateStarterOnly ==
  /\ pc = "Seeded"
  /\ DOMAIN transitions # {}
  /\ Len(starter) >= length
  /\ out' = StarterCut(starter, length)
  /\ pc' = "Returned"
  /\ UNCHANGED <<inputs, transitions, ai, rng, result, needed, gi, currentState,
                 call, out1, stopped, reseeded, lastState, lastChar>>

\* result.WriteString(starter); needed := length - len(starter); the cursor is
\* the last `order` bytes of the starter (a panic if that slice is out of range).
GenerateFromStarter ==
  /\ pc = "Seeded"
  /\ DOMAIN transitions # {}
  /\ Len(starter) < length
  /\ Len(starter) >= order
  /\ result' = starter
  /\ needed' = length - Len(starter)
  /\ gi' = 0
  /\ IF SliceOK(starter, Len(starter) - order, Len(starter))
       THEN /\ currentState' = Slice(starter, Len(starter) - order, Len(starter))
            /\ pc' = "Loop"
       ELSE /\ currentState' = currentState
            /\ pc' = "Panic"
  /\ UNCHANGED <<inputs, transitions, ai, rng, out, call, out1, stopped, reseeded,
                 lastState, lastChar>>

\* The starter is shorter than the order: the cursor is states[rand.Intn(len(states))]
\* with states the keys of the map in iteration order.
GenerateFromRandomState ==
  /\ pc = "Seeded"
  /\ DOMAIN transitions # {}
  /\ Len(starter) < length
  /\ Len(starter) < order
  /\ result' = starter
  /\ needed' = length - Len(starter)
  /\ gi' = 0
  /\ \E states \in KeyOrders(transitions) :
       currentState' = states[Intn(rng, Len(states)) + 1]
  /\ rng' = RandNext(rng)
  /\ pc' = "Loop"
  /\ UNCHANGED <<inputs, transitions, ai, out, call, out1, stopped, reseeded,
                 lastState, lastChar>>

\* The rest of an iteration from cursor `cur` and generator state `r`, `cur`
\* being the cursor after the re-seed, if any: stop at an empty successor list,
\* else draw nextChar, write it and advance the cursor.
Emit(cur, r) ==
  LET nextRunes == Lookup(transitions, cur)
  IN  IF Len(nextRunes) = 0
        THEN /\ stopped' = TRUE
             /\ out' = result
             /\ pc' = "Returned"
             /\ currentState' = cur
             /\ rng' = r
             /\ UNCHANGED <<result, gi, lastState, lastChar>>
        ELSE LET nextChar == nextRunes[Intn(r, Len(nextRunes)) + 1]
             IN  /\ result' = result \o Utf8(nextChar)
                 /\ currentState' = NextState(cur, nextChar, order)
                 /\ rng' = RandNext(r)
                 /\ gi' = gi + 1
                 /\ lastState' = cur
                 /\ lastChar' = nextChar
                 /\ UNCHANGED <<out, pc, stopped>>

\* One iteration of the generation loop whose cursor has successors.
GenerateStep ==
  /\ pc = "Loop"
  /\ gi < needed
  /\ Len(Lookup(transitions, currentState)) # 0
  /\ Emit(currentState, rng)
  /\ UNCHANGED <<inputs, transitions, ai, needed, call, out1, reseeded>>

\* One iteration whose cursor has no successors: the cursor is re-seeded with
\* states[rand.Intn(len(states))], then the iteration goes on from it.
GenerateReseedStep ==
  /\ pc = "Loop"
  /\ gi < needed
  /\ Len(Lookup(transitions, currentState)) = 0
  /\ \E states \in KeyOrders(transitions) :
       IF Len(states) = 0
         THEN /\ pc' = "Panic"
              /\ UNCHANGED <<rng, result, needed, gi, currentState, out, stopped,
                             lastState, lastChar>>
         ELSE Emit(states[Intn(rng, Len(states)) + 1], RandNext(rng))
  /\ reseeded' = TRUE
  /\ UNCHANGED <<inputs, transitions, ai, needed, call, out1>>

\* The loop has run `needed` times: return result.String().
GenerateReturn ==
  /\ pc = "Loop"
  /\ ~(gi < needed)
  /\ out' = result
  /\ pc' = "Returned"
  /\ UNCHANGED <<inputs, transitions, ai, rng, result, needed, gi, currentState,
                 call, out1, stopped, reseeded, lastState, lastChar>>

\* Generate is called again on the same chain with the same arguments (the
\* repeated call is followed for the reproducible seeds, seed >= 0).
SecondCall ==
  /\ pc = "Returned"
  /\ call = 1
  /\ seed >= 0
  /\ call' = 2
  /\ out1' = out
  /\ pc' = "Generate"
  /\ result' = <<>>
  /\ needed' = 0
  /\ gi' = 0
  /\ currentState' = <<>>
  /\ out' = <<>>
  /\ stopped' = FALSE
  /\ reseeded' = FALSE
  /\ lastState' = <<>>
  /\ lastChar' = -1
  /\ UNCHANGED <<inputs, transitions, ai, rng>>

Next ==
  \/ AddTextEnter
  \/ AddTextStep
  \/ AddTextPanic
  \/ AddTextReturn
  \/ GenerateNothing
  \/ GenerateSeed
  \/ GenerateSeedFromClock
  \/ GenerateEmptyTable
  \/ GenerateStarterOnly
  \/ GenerateFromStarter
  \/ GenerateFromRandomState
  \/ GenerateStep
  \/ GenerateReseedStep
  \/ GenerateReturn
  \/ SecondCall

Spec == Init /\ [][Next]_vars

\* ------------------------------------------------------ reference notions
\* The characters that follow the occurrences of s in the corpus among the
\* windows that start before index n, in corpus order and with duplicates.
RECURSIVE FollowersUpTo(_, _, _, _)
FollowersUpTo(t, s, k, n) ==
  IF n = 0 THEN <<>>
  ELSE LET before == FollowersUpTo(t, s, k, n - 1)
       IN  IF SubSeq(t, n, n - 1 + k) = s THEN Append(before, t[n + k]) ELSE before

\* The windows of k characters of the corpus that have a successor.
Windows(t, k) == {SubSeq(t, i + 1, i + k) : i \in 0..(Len(t) - k - 1)}

\* The reference table of corpus t at order k.
ReferenceTable(t, k) == [s \in Windows(t, k) |-> FollowersUpTo(t, s, k, Len(t) - k)]

\* The characters that followed s at least once in the corpus.
FollowerSet(t, s, k) ==
  {t[i + k + 1] : i \in {j \in 0..(Len(t) - k - 1) : SubSeq(t, j + 1, j + k) = s}}

\* AddText has returned.
Built == pc \in {"Generate", "Seeded", "Loop", "Returned"}

\* ------------------------------------------------------------------ claims
\* C1: for a non-negative seed, two calls of Generate with the same table,
\* order, length, seed and starter return the same string.
C1_Determinism ==
  (pc = "Returned" /\ call = 2 /\ seed >= 0) => out = out1

\* C2: Generate returns the empty string when length <= 0, and, when the table
\* is not empty and the loop was not left early, a string of exactly `length`
\* bytes (the unit of len(starter)).
C2_LengthContract ==
  pc = "Returned" =>
    /\ length <= 0 => out = <<>>
    /\ (length >= 0 /\ DOMAIN transitions # {} /\ ~stopped) => Len(out) = length

\* C3: for length > 0 the returned string is the first `length` characters of
\* the starter, nothing being generated, when len(starter) >= length, and begins
\* with the whole starter when len(starter) < length, the table empty or not.
C3_StarterLaw ==
  (pc = "Returned" /\ length > 0) =>
    IF Len(starter) >= length
      THEN out = SubSeq(starter, 1, length) /\ lastChar = -1
      ELSE Len(out) >= Len(starter) /\ SubSeq(out, 1, Len(starter)) = starter

C3_Witness ==
  /\ pc = "Returned"
  /\ length > 0
  /\ Len(starter) > 0
  /\ Len(starter) < length
  /\ Len(out) > Len(starter)

C5_BuildCorrect ==
  (Built /\ order >= 0 /\ Len(text) > order) =>
    /\ DOMAIN transitions = DOMAIN ReferenceTable(text, order)
    /\ \A s \in DOMAIN transitions : transitions[s] = ReferenceTable(text, order)[s]

C5_Witness ==
  /\ pc = "Generate"
  /\ Len(text) > order
  /\ order >= 1
  /\ \E s \in DOMAIN transitions : Len(transitions[s]) >= 2

\* C6: when len(corpus) <= order or order <= 0, the build ends without a fault
\* and returns an empty table.
C6_DegenerateBuildEmpty ==
  (Len(text) <= order \/ order <= 0) =>
    /\ pc # "Panic"
    /\ Built => DOMAIN transitions = {}

\* C7: neither AddText nor Generate ever faults, whatever the order, corpus,
\* length, seed and starter.
C7_NoFault == pc # "Panic"

\* C8: when the order exceeds len(corpus) the table is empty and Generate, for
\* length > 0, returns the starter cut to at most `length` characters and
\* generates nothing.
C8_EmptyTableFallback ==
  (order > Len(text) /\ Built) =>
    /\ DOMAIN transitions = {}
    /\ (pc = "Returned" /\ length > 0) =>
         /\ out = IF Len(starter) <= length THEN starter ELSE SubSeq(starter, 1, length)
         /\ lastChar = -1
         /\ result = <<>>

C8_Witness ==
  /\ pc = "Returned"
  /\ order > Len(text)
  /\ Len(text) > 0
  /\ length > 0
  /\ Len(starter) > length

\* C9: no entry of a built table has an empty successor list, and no call of
\* Generate leaves the loop early: a re-seeded cursor always has a successor.
C9_NoExhaustion ==
  /\ \A s \in DOMAIN transitions : Len(transitions[s]) > 0
  /\ ~stopped
  /\ (pc = "Returned" /\ length > 0 /\ DOMAIN transitions # {}) => Len(out) >= length

C9_Witness ==
  /\ pc = "Returned"
  /\ reseeded
  /\ ~stopped
  /\ Len(out) = length

\* C10: whenever the table is not empty, the cursor at the start of every
\* iteration and after every advance is a string of exactly `order` bytes.
C10_CursorLength ==
  (pc = "Loop" /\ DOMAIN transitions # {}) => Len(currentState) = order

====
